---------------------------- MODULE Spec2Model ----------------------------
(***************************************************************************)
(* Model of the AI Serendipity backend (src/main.py): the Completion       *)
(* Gateway call_openai_api, the Daily Seed get_date_hash and the five      *)
(* endpoint handlers with their line-prefix parsers.                       *)
(*                                                                         *)
(* Text is a sequence of one-character strings, so that str.split,         *)
(* str.strip, str.upper, str.startswith, str.replace and str.join are      *)
(* modelled by what they do.  Non-ASCII characters of the source (the      *)
(* sparkles of the fallback sentence, the emoji of the lists) are written  *)
(* as ASCII stand-ins; no parser of the program tests for them.            *)
(***************************************************************************)
EXTENDS Integers, Sequences, FiniteSets, TLC

VARIABLES clock, loop, req, run

vars == <<clock, loop, req, run>>

---------------------------------------------------------------------------
(* Bounds of the model.                                                    *)

MaxTicks == 2
NumRequests == 2
MaxRiddleLines == 3
MaxAsciiLines == 4
MaxInsightLines == 2
MaxWords == 8

---------------------------------------------------------------------------
(* Python's str operations on sequences of characters.                     *)

Chars(s) == [i \in 1..Len(s) |-> SubSeq(s, i, i)]

IsSpace(c) == c \in {" ", "\t", "\n", "\r"}

LowerCase == Chars("abcdefghijklmnopqrstuvwxyz")
UpperCase == Chars("ABCDEFGHIJKLMNOPQRSTUVWXYZ")

UpperChar(c) ==
  IF \E i \in 1..Len(LowerCase) : LowerCase[i] = c
  THEN UpperCase[CHOOSE i \in 1..Len(LowerCase) : LowerCase[i] = c]
  ELSE c

upper(s) == [i \in 1..Len(s) |-> UpperChar(s[i])]

RECURSIVE lstrip(_)
lstrip(s) ==
  IF s = <<>> THEN <<>>
  ELSE IF IsSpace(Head(s)) THEN lstrip(Tail(s)) ELSE s

RECURSIVE rstrip(_)
rstrip(s) ==
  IF s = <<>> THEN <<>>
  ELSE IF IsSpace(s[Len(s)]) THEN rstrip(SubSeq(s, 1, Len(s) - 1)) ELSE s

strip(s) == rstrip(lstrip(s))

startswith(s, p) == Len(s) >= Len(p) /\ SubSeq(s, 1, Len(p)) = p

Find(s, c) ==
  IF \E i \in 1..Len(s) : s[i] = c
  THEN CHOOSE i \in 1..Len(s) : s[i] = c /\ \A j \in 1..(i - 1) : s[j] # c
  ELSE 0

\* s.split(c): every occurrence of the one-character separator c cuts.
RECURSIVE split(_, _)
split(s, c) ==
  IF Find(s, c) = 0 THEN <<s>>
  ELSE <<SubSeq(s, 1, Find(s, c) - 1)>>
         \o split(SubSeq(s, Find(s, c) + 1, Len(s)), c)

\* s.split(c, 1): at most one cut, at the first occurrence of c.
split1(s, c) ==
  IF Find(s, c) = 0 THEN <<s>>
  ELSE <<SubSeq(s, 1, Find(s, c) - 1), SubSeq(s, Find(s, c) + 1, Len(s))>>

FirstSpace(s) ==
  IF \E i \in 1..Len(s) : IsSpace(s[i])
  THEN CHOOSE i \in 1..Len(s) :
         IsSpace(s[i]) /\ \A j \in 1..(i - 1) : ~IsSpace(s[j])
  ELSE Len(s) + 1

\* s.split(): the maximal runs of non-whitespace characters.
RECURSIVE split_ws(_)
split_ws(s) ==
  IF lstrip(s) = <<>> THEN <<>>
  ELSE LET t == lstrip(s)
       IN  <<SubSeq(t, 1, FirstSpace(t) - 1)>>
             \o split_ws(SubSeq(t, FirstSpace(t), Len(t)))

\* s.replace(old, ""): every non-overlapping occurrence, left to right.
RECURSIVE remove(_, _)
remove(s, old) ==
  IF s = <<>> THEN <<>>
  ELSE IF startswith(s, old) THEN remove(SubSeq(s, Len(old) + 1, Len(s)), old)
  ELSE <<Head(s)>> \o remove(Tail(s), old)

\* sep.join(parts)
RECURSIVE join(_, _)
join(parts, sep) ==
  IF parts = <<>> THEN <<>>
  ELSE IF Len(parts) = 1 THEN parts[1]
  ELSE parts[1] \o sep \o join(Tail(parts), sep)

Min(a, b) == IF a <= b THEN a ELSE b

---------------------------------------------------------------------------
(* Daily Seed.                                                             *)

\* datetime.now().strftime("%Y-%m-%d") on the days the model's clock visits.
Dates ==
  << "2026-11-01", "2026-11-02", "2026-11-03", "2026-11-04", "2026-11-05" >>

\* hashlib.md5(d.encode()).hexdigest()[:8] of each of Dates, as md5 gives it.
Md5Prefix ==
  << "09096270", "5eae5876", "92ef03b0", "82bab43b", "804d60c4" >>

HexDigits == Chars("0123456789abcdef")

HexVal(c) == (CHOOSE i \in 1..16 : HexDigits[i] = c) - 1

\* int(s, 16) of a two-character string
Int16(s) == 16 * HexVal(s[1]) + HexVal(s[2])

\* the token get_date_hash returns when the clock reads day d
get_date_hash(d) == Chars(Md5Prefix[d])

strftime(d) == Dates[d]

visuals ==
  << "sparkles", "star", "sunrise", "dizzy", "fire", "rainbow", "butterfly",
     "blossom" >>

colors ==
  << "#FF6B6B", "#4ECDC4", "#45B7D1", "#96CEB4", "#FFEAA7", "#DDA0DD",
     "#98D8C8" >>

\* an index read from the wrong two characters of the token
visual_element_wrong_slice(date_hash) ==
  visuals[(Int16(SubSeq(date_hash, 2, 3)) % Len(visuals)) + 1]

\* visuals[int(date_hash[:2], 16) % len(visuals)]   (Python indexes from 0)
visual_element(date_hash) ==
  visuals[(Int16(SubSeq(date_hash, 1, 2)) % Len(visuals)) + 1]

\* colors[int(date_hash[2:4], 16) % len(colors)]
mood_color(date_hash) ==
  colors[(Int16(SubSeq(date_hash, 3, 4)) % Len(colors)) + 1]

---------------------------------------------------------------------------
(* Completion Gateway.                                                     *)

FALLBACK == Chars("Something magical went wrong, but you are still amazing! *")

\* What the external service does with one call: it answers with some
\* content, or the call raises.
Reply(content) == [ok |-> TRUE, content |-> content]
Failure == [ok |-> FALSE, content |-> <<>>]

\* call_openai_api: the stripped content, or the fallback sentence on any
\* exception.
call_openai_api(outcome) ==
  IF outcome.ok THEN strip(outcome.content) ELSE FALLBACK

---------------------------------------------------------------------------
(* Riddle handler: the parse of lines 187-198.                             *)

\* a loop body that keeps the whitespace around the value
riddle_step_unstripped(acc, line) ==
  IF startswith(upper(line), Chars("QUESTION:"))
  THEN [acc EXCEPT !.question = split1(line, ":")[2]]
  ELSE IF startswith(upper(line), Chars("ANSWER:"))
  THEN [acc EXCEPT !.answer = split1(line, ":")[2]]
  ELSE acc

\* one iteration of the loop over content.split("\n")
riddle_step(acc, line) ==
  IF startswith(upper(line), Chars("QUESTION:"))
  THEN [acc EXCEPT !.question = strip(split1(line, ":")[2])]
  ELSE IF startswith(upper(line), Chars("ANSWER:"))
  THEN [acc EXCEPT !.answer = strip(split1(line, ":")[2])]
  ELSE acc

\* a loop in which the first matching line wins: later lines are applied
\* first, so the earliest matching line assigns last
RECURSIVE riddle_loop_first_wins(_, _)
riddle_loop_first_wins(acc, lines) ==
  IF lines = <<>> THEN acc
  ELSE riddle_step(riddle_loop_first_wins(acc, Tail(lines)), Head(lines))

RECURSIVE riddle_loop(_, _)
riddle_loop(acc, lines) ==
  IF lines = <<>> THEN acc
  ELSE riddle_loop(riddle_step(acc, Head(lines)), Tail(lines))

get_riddle(content) ==
  riddle_loop([question |-> content, answer |-> <<>>], split(content, "\n"))

---------------------------------------------------------------------------
(* ASCII challenge handler: the parse of lines 233-251.                    *)

\* a step that keeps the marker lines it sees while capturing
ascii_step_keeps_markers(acc, line) ==
  IF startswith(upper(strip(line)), Chars("ASCII:"))
  THEN [acc EXCEPT !.capture_ascii = TRUE,
                   !.ascii_art = IF acc.capture_ascii
                                 THEN Append(acc.ascii_art, line)
                                 ELSE acc.ascii_art]
  ELSE IF startswith(upper(strip(line)), Chars("ANSWER:"))
  THEN [acc EXCEPT !.capture_ascii = FALSE,
                   !.answer = strip(split1(line, ":")[2])]
  ELSE IF acc.capture_ascii
  THEN [acc EXCEPT !.ascii_art = Append(acc.ascii_art, line)]
  ELSE acc

ascii_step(acc, line) ==
  IF startswith(upper(strip(line)), Chars("ASCII:"))
  THEN [acc EXCEPT !.capture_ascii = TRUE]
  ELSE IF startswith(upper(strip(line)), Chars("ANSWER:"))
  THEN [acc EXCEPT !.capture_ascii = FALSE,
                   !.answer = strip(split1(line, ":")[2])]
  ELSE IF acc.capture_ascii
  THEN [acc EXCEPT !.ascii_art = Append(acc.ascii_art, line)]
  ELSE acc

RECURSIVE ascii_loop(_, _)
ascii_loop(acc, lines) ==
  IF lines = <<>> THEN acc
  ELSE ascii_loop(ascii_step(acc, Head(lines)), Tail(lines))

get_ascii_challenge(content) ==
  LET acc == ascii_loop([ascii_art |-> <<>>, answer |-> <<>>,
                         capture_ascii |-> FALSE],
                        split(content, "\n"))
  IN  [ascii_art |-> join(acc.ascii_art, <<"\n">>), answer |-> acc.answer]

---------------------------------------------------------------------------
(* Personality insight handler: lines 258-259 and 275-289.                 *)

\* a validation that rejects only the empty string
input_rejected_empty_only(input) == input = <<>>

\* not req.input.strip()
input_rejected(input) == strip(input) = <<>>

DefaultType == Chars("The Unique Soul")
DefaultTraits == <<Chars("Creative"), Chars("Thoughtful"), Chars("Inspiring")>>

StripEach(parts) == [i \in 1..Len(parts) |-> strip(parts[i])]
NonEmpty(t) == t # <<>>

\* [t.strip() for t in line.replace("TRAITS:", "").split(",") if t.strip()]
parse_traits(line) ==
  SelectSeq(StripEach(split(remove(line, Chars("TRAITS:")), ",")), NonEmpty)

\* a step whose prefix test ignores case, like the riddle's
insight_step_any_case(acc, line) ==
  IF startswith(upper(line), Chars("INSIGHT:"))
  THEN [acc EXCEPT !.insight = strip(remove(line, Chars("INSIGHT:")))]
  ELSE IF startswith(upper(line), Chars("TYPE:"))
  THEN [acc EXCEPT !.ptype = strip(remove(line, Chars("TYPE:")))]
  ELSE IF startswith(upper(line), Chars("TRAITS:"))
  THEN [acc EXCEPT !.traits = parse_traits(line)]
  ELSE acc

insight_step(acc, line) ==
  IF startswith(line, Chars("INSIGHT:"))
  THEN [acc EXCEPT !.insight = strip(remove(line, Chars("INSIGHT:")))]
  ELSE IF startswith(line, Chars("TYPE:"))
  THEN [acc EXCEPT !.ptype = strip(remove(line, Chars("TYPE:")))]
  ELSE IF startswith(line, Chars("TRAITS:"))
  THEN [acc EXCEPT !.traits = parse_traits(line)]
  ELSE acc

RECURSIVE insight_loop(_, _)
insight_loop(acc, lines) ==
  IF lines = <<>> THEN acc
  ELSE insight_loop(insight_step(acc, Head(lines)), Tail(lines))

\* a score without the cap
confidence_uncapped(input) == 60 + (Len(split_ws(input)) * 5)

\* min(0.95, 0.6 + (len(req.input.split()) * 0.05)), in hundredths: the
\* float Python computes is within 2e-16 of n/100 for every word count, and
\* is the float 0.95 itself from seven words on.
confidence(input) == Min(95, 60 + (Len(split_ws(input)) * 5))

get_personality_insight(input, text) ==
  LET acc == insight_loop([insight |-> text, ptype |-> DefaultType,
                           traits |-> DefaultTraits],
                          split(text, "\n"))
  IN  [insight          |-> acc.insight,
       traits           |-> SubSeq(acc.traits, 1, Min(4, Len(acc.traits))),
       personality_type |-> acc.ptype,
       share_text       |-> Chars("I just discovered I'm ") \o acc.ptype
                              \o Chars("! * What's your AI personality type?"),
       confidence_score |-> confidence(input)]

---------------------------------------------------------------------------
(* What the external service may answer, per feature: every text of up to  *)
(* a bounded number of lines drawn from a pool of lines.                   *)

CharsOfEach(S) == {Chars(x) : x \in S}

Texts(pool, n) ==
  {join(f, <<"\n">>) : f \in UNION {[1..k -> pool] : k \in 0..n}}

Outcomes(texts) == {Failure} \cup {Reply(t) : t \in texts}

RiddleLines ==
  CharsOfEach({ "QUESTION: Why?", "question:  What am I? ", "ANSWER: Because.",
                "Answer: an echo ", " ANSWER: x", "I speak without a mouth.",
                "QUESTION: Who: me?" })

AsciiLines ==
  CharsOfEach({ "ASCII:", "  ascii: here", " |\\_/|", "( o.o )",
                "ANSWER: Cat", " answer:  a dog " })

InsightLines ==
  CharsOfEach({ "INSIGHT: You are kind.", "insight: lower case",
                "TYPE: The Dreamer", "TYPE: A PROTOTYPE: x", "type: lower",
                "TRAITS: Brave, Kind,, Curious , Calm, Bold", "TRAITS:",
                "traits: lower, case", "TRAITS: Wise" })

RiddleOutcomes == Outcomes(Texts(RiddleLines, MaxRiddleLines))
AsciiOutcomes == Outcomes(Texts(AsciiLines, MaxAsciiLines))
InsightOutcomes == Outcomes(Texts(InsightLines, MaxInsightLines))

Words(n) == [i \in 1..n |-> Chars("ok")]

\* request inputs of 0..MaxWords words, single-spaced or padded with runs
\* of whitespace
InsightInputs ==
  {join(Words(n), <<" ">>) : n \in 0..MaxWords}
    \cup {Chars(" \t") \o join(Words(n), Chars(" \n ")) \o Chars("  ") :
            n \in 0..MaxWords}

---------------------------------------------------------------------------
(* One request served from start to finish: the handler, the gateway call  *)
(* it makes and the service's answer to that call.  A behaviour serves     *)
(* one request; the handlers share no state, so a second one adds nothing. *)

NoRun ==
  [fn |-> "none", input |-> <<>>, failed |-> FALSE, calls |-> 0,
   text |-> <<>>, status |-> 0, resp |-> <<>>]

RunRiddle ==
  /\ run.fn = "none"
  /\ \E o \in RiddleOutcomes :
       LET content == call_openai_api(o)
       IN  run' = [fn |-> "riddle", input |-> <<>>, failed |-> ~o.ok,
                   calls |-> 1, text |-> content, status |-> 200,
                   resp |-> get_riddle(content)]
  /\ UNCHANGED <<clock, loop, req>>

RunAscii ==
  /\ run.fn = "none"
  /\ \E o \in AsciiOutcomes :
       LET content == call_openai_api(o)
       IN  run' = [fn |-> "ascii", input |-> <<>>, failed |-> ~o.ok,
                   calls |-> 1, text |-> content, status |-> 200,
                   resp |-> get_ascii_challenge(content)]
  /\ UNCHANGED <<clock, loop, req>>

RunInsight ==
  /\ run.fn = "none"
  /\ \E input \in InsightInputs :
       IF input_rejected(input)
       THEN run' = [fn |-> "insight", input |-> input, failed |-> FALSE,
                    calls |-> 0, text |-> <<>>, status |-> 400,
                    resp |-> [detail |-> "Input cannot be empty"]]
       ELSE \E o \in InsightOutcomes :
              LET text == call_openai_api(o)
              IN  run' = [fn |-> "insight", input |-> input,
                          failed |-> ~o.ok, calls |-> 1, text |-> text,
                          status |-> 200,
                          resp |-> get_personality_insight(input, text)]
  /\ UNCHANGED <<clock, loop, req>>

---------------------------------------------------------------------------
(* The server: uvicorn runs the application on one event loop (line 293),  *)
(* and every handler is a coroutine on it.  call_openai_api has no await   *)
(* inside: client.chat.completions.create (line 77) is the synchronous     *)
(* client, so a handler keeps the loop's thread from its first statement   *)
(* to its return, the service's answer included.  loop is the request      *)
(* whose handler holds the thread (0: none); clock is the day that         *)
(* datetime.now() reads.  The prompt's other ingredients (weekday, hour)   *)
(* reach only the service, whose answer the model leaves unconstrained.    *)

Requests == 1..NumRequests

Endpoints ==
  { "daily-affirmation", "random-fun", "riddle", "ascii-challenge",
    "personality-insight" }

Languages == { "english", "hindi" }

ServerInputs == CharsOfEach({ "", " \t ", "I like tea" })

fun_types ==
  << [type |-> "joke", emoji |-> "grin"],
     [type |-> "compliment", emoji |-> "heart-gift"],
     [type |-> "art", emoji |-> "palette"] >>

\* the answers the service gives in the server model
ServerOutcomes(ep) ==
  Outcomes(CharsOfEach(
    CASE ep = "daily-affirmation" -> { "Today is yours. " }
      [] ep = "random-fun" -> { "A short joke." }
      [] ep = "riddle" -> { "QUESTION: Why?\nANSWER: Because." }
      [] ep = "ascii-challenge" -> { "ASCII:\n |\\_/|\n( o.o )\nANSWER: Cat" }
      [] OTHER -> { "INSIGHT: You are kind.\nTYPE: The Dreamer" }))

Idle ==
  [pc |-> "idle", ep |-> "", language |-> "", input |-> <<>>, choice |-> 0,
   date_hash |-> <<>>, seed_day |-> 0, today |-> "", calls |-> 0,
   failed |-> FALSE, text |-> <<>>, status |-> 0, resp |-> <<>>]

\* the response leaves the handler: its frame (language, prompt, choice)
\* is gone
Done(q, status, resp) ==
  [q EXCEPT !.pc = "done", !.language = "", !.choice = 0, !.status = status,
            !.resp = resp]

Init ==
  /\ clock = 1
  /\ loop = 0
  /\ req = [r \in Requests |-> Idle]
  /\ run = NoRun

\* midnight passes
Tick ==
  /\ clock < 1 + MaxTicks
  /\ clock < Len(Dates)
  /\ clock' = clock + 1
  /\ UNCHANGED <<loop, req, run>>

\* a client posts a request; it waits in the socket for the event loop
Arrive(r) ==
  /\ req[r].pc = "idle"
  /\ \E ep \in Endpoints, language \in Languages, input \in ServerInputs :
       /\ ep # "personality-insight" => input = <<>>
       /\ req' = [req EXCEPT ![r] = [Idle EXCEPT !.pc = "queued", !.ep = ep,
                                                 !.language = language,
                                                 !.input = input]]
  /\ UNCHANGED <<clock, loop, run>>

\* line 97: date_hash = get_date_hash(), the first read of the clock
BeginAffirmation(r) ==
  /\ loop = 0
  /\ req[r].pc = "queued"
  /\ req[r].ep = "daily-affirmation"
  /\ loop' = r
  /\ req' = [req EXCEPT ![r].pc = "seeded",
                        ![r].date_hash = get_date_hash(clock),
                        ![r].seed_day = clock]
  /\ UNCHANGED <<clock, run>>

\* lines 98-112: today = datetime.now().strftime(...), a later read of the
\* clock; then the prompt is built and the gateway called
PromptAffirmation(r) ==
  /\ loop = r
  /\ req[r].pc = "seeded"
  /\ req' = [req EXCEPT ![r].pc = "calling",
                        ![r].today = strftime(clock),
                        ![r].calls = @ + 1]
  /\ UNCHANGED <<clock, loop, run>>

\* lines 114-122
FinishAffirmation(r) ==
  /\ loop = r
  /\ req[r].pc = "calling"
  /\ req[r].ep = "daily-affirmation"
  /\ \E o \in ServerOutcomes(req[r].ep) :
       LET text == call_openai_api(o)
       IN  req' = [req EXCEPT ![r] =
                     Done([@ EXCEPT !.failed = ~o.ok, !.text = text], 200,
                          [affirmation    |-> text,
                           visual_element |-> visual_element(req[r].date_hash),
                           date           |-> req[r].today,
                           mood_color     |-> mood_color(req[r].date_hash)])]
  /\ loop' = 0
  /\ UNCHANGED <<clock, run>>

\* lines 138-164: random.choice, then the gateway is called
BeginRandomFun(r) ==
  /\ loop = 0
  /\ req[r].pc = "queued"
  /\ req[r].ep = "random-fun"
  /\ loop' = r
  /\ \E choice \in 1..Len(fun_types) :
       req' = [req EXCEPT ![r].pc = "calling", ![r].choice = choice,
                          ![r].calls = @ + 1]
  /\ UNCHANGED <<clock, run>>

\* lines 166-170
FinishRandomFun(r) ==
  /\ loop = r
  /\ req[r].pc = "calling"
  /\ req[r].ep = "random-fun"
  /\ \E o \in ServerOutcomes(req[r].ep) :
       LET content == call_openai_api(o)
       IN  req' = [req EXCEPT ![r] =
                     Done([@ EXCEPT !.failed = ~o.ok, !.text = content], 200,
                          [type    |-> fun_types[req[r].choice].type,
                           content |-> content,
                           emoji   |-> fun_types[req[r].choice].emoji])]
  /\ loop' = 0
  /\ UNCHANGED <<clock, run>>

\* lines 175-185 and 202-231: the prompt is built and the gateway called
BeginParsed(r) ==
  /\ loop = 0
  /\ req[r].pc = "queued"
  /\ req[r].ep \in {"riddle", "ascii-challenge"}
  /\ loop' = r
  /\ req' = [req EXCEPT ![r].pc = "calling", ![r].calls = @ + 1]
  /\ UNCHANGED <<clock, run>>

\* lines 187-198
FinishRiddle(r) ==
  /\ loop = r
  /\ req[r].pc = "calling"
  /\ req[r].ep = "riddle"
  /\ \E o \in ServerOutcomes(req[r].ep) :
       LET content == call_openai_api(o)
       IN  req' = [req EXCEPT ![r] =
                     Done([@ EXCEPT !.failed = ~o.ok, !.text = content], 200,
                          get_riddle(content))]
  /\ loop' = 0
  /\ UNCHANGED <<clock, run>>

\* lines 233-251
FinishAscii(r) ==
  /\ loop = r
  /\ req[r].pc = "calling"
  /\ req[r].ep = "ascii-challenge"
  /\ \E o \in ServerOutcomes(req[r].ep) :
       LET content == call_openai_api(o)
       IN  req' = [req EXCEPT ![r] =
                     Done([@ EXCEPT !.failed = ~o.ok, !.text = content], 200,
                          get_ascii_challenge(content))]
  /\ loop' = 0
  /\ UNCHANGED <<clock, run>>

\* lines 258-273: the validation, then the prompt and the gateway call
BeginInsight(r) ==
  /\ loop = 0
  /\ req[r].pc = "queued"
  /\ req[r].ep = "personality-insight"
  /\ IF input_rejected(req[r].input)
     THEN /\ req' = [req EXCEPT ![r] =
                       Done(@, 400, [detail |-> "Input cannot be empty"])]
          /\ loop' = 0
     ELSE /\ req' = [req EXCEPT ![r].pc = "calling", ![r].calls = @ + 1]
          /\ loop' = r
  /\ UNCHANGED <<clock, run>>

\* lines 275-289
FinishInsight(r) ==
  /\ loop = r
  /\ req[r].pc = "calling"
  /\ req[r].ep = "personality-insight"
  /\ \E o \in ServerOutcomes(req[r].ep) :
       LET text == call_openai_api(o)
       IN  req' = [req EXCEPT ![r] =
                     Done([@ EXCEPT !.failed = ~o.ok, !.text = text], 200,
                          get_personality_insight(req[r].input, text))]
  /\ loop' = 0
  /\ UNCHANGED <<clock, run>>

\* the steps of request r's handler
Handle(r) ==
  \/ BeginAffirmation(r)
  \/ PromptAffirmation(r)
  \/ FinishAffirmation(r)
  \/ BeginRandomFun(r)
  \/ FinishRandomFun(r)
  \/ BeginParsed(r)
  \/ FinishRiddle(r)
  \/ FinishAscii(r)
  \/ BeginInsight(r)
  \/ FinishInsight(r)

Next ==
  \/ Tick
  \/ \E r \in Requests : Arrive(r)
  \/ \E r \in Requests : Handle(r)

Spec == Init /\ [][Next]_vars

\* one request at a time, served from start to finish
HandlerNext == RunRiddle \/ RunAscii \/ RunInsight

HandlerSpec == Init /\ [][HandlerNext]_vars

---------------------------------------------------------------------------
(* The properties.                                                         *)

After(line, n) == SubSeq(line, n + 1, Len(line))

First(L, P(_)) == CHOOSE i \in 1..Len(L) : P(L[i]) /\ \A j \in 1..(i - 1) : ~P(L[j])
Last(L, P(_)) ==
  CHOOSE i \in 1..Len(L) : P(L[i]) /\ \A j \in (i + 1)..Len(L) : ~P(L[j])
Some(L, P(_)) == \E i \in 1..Len(L) : P(L[i])

Blank(s) == \A i \in 1..Len(s) : IsSpace(s[i])

\* the number of places where a word starts
WordCount(s) ==
  Cardinality({i \in 1..Len(s) :
                 ~IsSpace(s[i]) /\ (i = 1 \/ IsSpace(s[i - 1]))})

Finished(r) == req[r].pc = "done"

\* the field of a response that carries the generated content
ContentField(q) ==
  CASE q.ep = "daily-affirmation" -> q.resp.affirmation
    [] q.ep = "random-fun" -> q.resp.content
    [] q.ep = "riddle" -> q.resp.question
    [] q.ep = "ascii-challenge" -> q.resp.ascii_art
    [] OTHER -> q.resp.insight

\* C1: whenever the completion call of a request failed, the request ends in
\* a success response whose generated-content field is the fallback sentence,
\* on each of the five endpoints.
C1_FallbackInEveryResponse ==
  \A r \in Requests :
    (Finished(r) /\ req[r].failed) =>
      (req[r].status = 200 /\ ContentField(req[r]) = FALLBACK)

\* C2: a personality-insight request whose input is empty or all whitespace
\* never makes a call to the completion service, never gets past the
\* validation, and ends in HTTP 400.
C2_BlankInputRejectedBeforeCall ==
  \A r \in Requests :
    (req[r].ep = "personality-insight" /\ Blank(req[r].input)) =>
      /\ req[r].calls = 0
      /\ req[r].pc \in {"queued", "done"}
      /\ Finished(r) => req[r].status = 400

C2_Witness ==
  \E r \in Requests :
    /\ Finished(r)
    /\ req[r].ep = "personality-insight"
    /\ req[r].input = Chars(" \t ")
    /\ req[r].status = 400
    /\ req[r].calls = 0

\* C3: while the completion call of one request is outstanding, every other
\* request that is waiting to be handled can take a step of its handler.
C3_NoRequestWaitsOnAnother ==
  \A r1, r2 \in Requests :
    (r1 # r2 /\ req[r1].pc = "calling" /\ req[r2].pc = "queued") =>
      ENABLED Handle(r2)

IsQuestionLine(line) == startswith(upper(line), Chars("QUESTION:"))
IsAnswerLine(line) == startswith(upper(line), Chars("ANSWER:"))

\* the two-line text QUESTION: <q> \n ANSWER: <a> gives q and a, trimmed
RiddleTwoLineForm(L, resp) ==
  (/\ Len(L) = 2
   /\ startswith(L[1], Chars("QUESTION:"))
   /\ startswith(L[2], Chars("ANSWER:"))) =>
     /\ resp.question = strip(After(L[1], 9))
     /\ resp.answer = strip(After(L[2], 7))

\* C4 as stated: a text without an ANSWER: line gives an empty answer and
\* the full text as the question; the two-line form gives q and a.
C4_NoAnswerGivesRawQuestion ==
  run.fn = "riddle" =>
    LET L == split(run.text, "\n")
    IN  /\ ~Some(L, IsAnswerLine) =>
             (run.resp.answer = <<>> /\ run.resp.question = run.text)
        /\ RiddleTwoLineForm(L, run.resp)

\* C4, amended: a text without an ANSWER: line gives an empty answer; a text
\* without a QUESTION: line gives the full text as the question; the
\* two-line form gives q and a, trimmed.
C4_DefaultsPerField ==
  run.fn = "riddle" =>
    LET L == split(run.text, "\n")
    IN  /\ ~Some(L, IsAnswerLine) => run.resp.answer = <<>>
        /\ ~Some(L, IsQuestionLine) => run.resp.question = run.text
        /\ RiddleTwoLineForm(L, run.resp)

C4_Witness ==
  /\ run.fn = "riddle"
  /\ ~run.failed
  /\ run.text = Chars("QUESTION: Why?\nI speak without a mouth.")
  /\ run.resp.question = Chars("Why?")
  /\ run.resp.answer = <<>>

IsAsciiMark(line) == startswith(upper(strip(line)), Chars("ASCII:"))
IsAnswerMark(line) == startswith(upper(strip(line)), Chars("ANSWER:"))

\* the lines that follow an ASCII: line with no ANSWER: line in between and
\* are no marker line themselves
Captured(L) ==
  {i \in 1..Len(L) :
     /\ ~IsAsciiMark(L[i])
     /\ ~IsAnswerMark(L[i])
     /\ \E j \in 1..(i - 1) :
          IsAsciiMark(L[j]) /\ \A k \in (j + 1)..(i - 1) : ~IsAnswerMark(L[k])}

CapturedLines(L) ==
  LET picked == SelectSeq([i \in 1..Len(L) |-> i], LAMBDA i : i \in Captured(L))
  IN  [n \in 1..Len(picked) |-> L[picked[n]]]

\* C5: ascii_art is the captured lines (after an ASCII: line, before the
\* next ANSWER: line, marker lines excluded), in order, unmodified, joined
\* with newlines; answer is the trimmed text after the colon of the (last)
\* ANSWER: line, and empty without one.
C5_AsciiArtIsCapturedBlock ==
  run.fn = "ascii" =>
    LET L == split(run.text, "\n")
    IN  /\ run.resp.ascii_art = join(CapturedLines(L), <<"\n">>)
        /\ run.resp.answer =
             IF Some(L, IsAnswerMark)
             THEN strip(After(lstrip(L[Last(L, IsAnswerMark)]), 7))
             ELSE <<>>

C5_Witness ==
  /\ run.fn = "ascii"
  /\ run.text = Chars("ASCII:\n |\\_/|\n( o.o )\nANSWER: Cat")
  /\ run.resp.ascii_art = Chars(" |\\_/|\n( o.o )")
  /\ run.resp.answer = Chars("Cat")

\* C6: the confidence score of an accepted input of N words is
\* min(95, 60 + 5 N) hundredths: at most 95, 95 from seven words on, and no
\* smaller than the score of any accepted input with fewer words.
C6_ConfidenceScore ==
  (run.fn = "insight" /\ run.status = 200) =>
    LET N == WordCount(run.input)
        score == run.resp.confidence_score
    IN  /\ score = Min(95, 60 + 5 * N)
        /\ score <= 95
        /\ N >= 7 => score = 95
        /\ \A other \in InsightInputs :
             (~Blank(other) /\ WordCount(other) <= N) =>
               confidence(other) <= score

C6_Witness ==
  /\ run.fn = "insight"
  /\ run.status = 200
  /\ WordCount(run.input) > 7
  /\ run.resp.confidence_score = 95

HandledOn(r, d) ==
  /\ Finished(r)
  /\ req[r].ep = "daily-affirmation"
  /\ req[r].seed_day = d
  /\ req[r].resp.date = Dates[d]

\* C7: two daily-affirmation requests handled on the same date carry the
\* same visual_element and mood_color, each the list entry at the index
\* (two hex characters of that date's seed, base 16) modulo the list length.
C7_DecorationIsFunctionOfDate ==
  \A d \in 1..Len(Dates) : \A r1, r2 \in Requests :
    (HandledOn(r1, d) /\ HandledOn(r2, d)) =>
      /\ req[r1].resp.visual_element = req[r2].resp.visual_element
      /\ req[r1].resp.mood_color = req[r2].resp.mood_color
      /\ req[r1].resp.visual_element =
           visuals[(Int16(Chars(SubSeq(Md5Prefix[d], 1, 2))) % 8) + 1]
      /\ req[r1].resp.mood_color =
           colors[(Int16(Chars(SubSeq(Md5Prefix[d], 3, 4))) % 7) + 1]

C7_Witness ==
  \E d \in 1..Len(Dates) : \E r1, r2 \in Requests :
    /\ r1 # r2
    /\ HandledOn(r1, d)
    /\ HandledOn(r2, d)
    /\ req[r1].failed
    /\ ~req[r2].failed
    /\ req[r1].resp.affirmation # req[r2].resp.affirmation
    /\ req[r1].resp.visual_element = req[r2].resp.visual_element

RiddleValue(line) == strip(After(line, Find(line, ":")))

\* C8 as stated: of several QUESTION: (ANSWER:) lines the first one gives
\* the question (answer).
C8_FirstMatchingLineWins ==
  run.fn = "riddle" =>
    LET L == split(run.text, "\n")
    IN  /\ Some(L, IsQuestionLine) =>
             run.resp.question = RiddleValue(L[First(L, IsQuestionLine)])
        /\ Some(L, IsAnswerLine) =>
             run.resp.answer = RiddleValue(L[First(L, IsAnswerLine)])

\* C8, amended: of several QUESTION: (ANSWER:) lines the last one gives the
\* question (answer); earlier matching lines do not change it.
C8_LastMatchingLineWins ==
  run.fn = "riddle" =>
    LET L == split(run.text, "\n")
    IN  /\ Some(L, IsQuestionLine) =>
             run.resp.question = RiddleValue(L[Last(L, IsQuestionLine)])
        /\ Some(L, IsAnswerLine) =>
             run.resp.answer = RiddleValue(L[Last(L, IsAnswerLine)])

C8_Witness ==
  /\ run.fn = "riddle"
  /\ run.text = Chars("QUESTION: Why?\nQUESTION: Who: me?\nANSWER: Because.")
  /\ run.resp.question = Chars("Who: me?")
  /\ run.resp.answer = Chars("Because.")

IsInsightLine(line) == startswith(line, Chars("INSIGHT:"))
IsTypeLine(line) == startswith(line, Chars("TYPE:"))
IsTraitsLine(line) == startswith(line, Chars("TRAITS:"))

\* C9: a field is its default when no line starts with its exact-case
\* prefix, and comes from the last such line when one does; at most four
\* traits are returned, each trimmed and non-empty; every accepted request
\* is answered.
C9_PersonalityDefaults ==
  (run.fn = "insight" /\ ~Blank(run.input)) =>
    LET L == split(run.text, "\n")
        lastTraits == parse_traits(L[Last(L, IsTraitsLine)])
    IN  /\ run.status = 200
        /\ run.resp.insight =
             IF Some(L, IsInsightLine)
             THEN strip(remove(L[Last(L, IsInsightLine)], Chars("INSIGHT:")))
             ELSE run.text
        /\ Some(L, IsInsightLine) => run.resp.insight # run.text
        /\ run.resp.personality_type =
             IF Some(L, IsTypeLine)
             THEN strip(remove(L[Last(L, IsTypeLine)], Chars("TYPE:")))
             ELSE Chars("The Unique Soul")
        /\ run.resp.traits =
             IF Some(L, IsTraitsLine)
             THEN [i \in 1..Min(4, Len(lastTraits)) |-> lastTraits[i]]
             ELSE <<Chars("Creative"), Chars("Thoughtful"), Chars("Inspiring")>>
        /\ Len(run.resp.traits) <= 4
        /\ \A i \in 1..Len(run.resp.traits) :
             LET t == run.resp.traits[i]
             IN  t # <<>> /\ ~IsSpace(t[1]) /\ ~IsSpace(t[Len(t)])

C9_Witness ==
  /\ run.fn = "insight"
  /\ run.status = 200
  /\ run.text = Chars("insight: lower case\nTRAITS: Brave, Kind,, Curious , Calm, Bold")
  /\ run.resp.insight = run.text
  /\ run.resp.personality_type = Chars("The Unique Soul")
  /\ run.resp.traits =
       <<Chars("Brave"), Chars("Kind"), Chars("Curious"), Chars("Calm")>>

\* C10: the date field of a daily-affirmation response is the date the seed
\* of its visual_element and mood_color was derived from, so that two
\* responses with the same date field carry the same decoration.
C10_DateFieldIsSeedDate ==
  /\ \A r \in Requests :
       (Finished(r) /\ req[r].ep = "daily-affirmation") =>
         req[r].resp.date = Dates[req[r].seed_day]
  /\ \A r1, r2 \in Requests :
       (/\ Finished(r1) /\ req[r1].ep = "daily-affirmation"
        /\ Finished(r2) /\ req[r2].ep = "daily-affirmation"
        /\ req[r1].resp.date = req[r2].resp.date) =>
          /\ req[r1].resp.visual_element = req[r2].resp.visual_element
          /\ req[r1].resp.mood_color = req[r2].resp.mood_color

=============================================================================
